---- MODULE Spec2Model ----
(***************************************************************************)
(* The recording / transcription cycle of VoiceTranscriber (src/main.py)   *)
(* and the platform handlers it calls (src/platform_utils.py).             *)
(*                                                                         *)
(* Threads of control:                                                     *)
(*   - the hotkey listener thread, which runs toggle_recording;            *)
(*   - the audio callback thread, which runs audio_callback;               *)
(*   - one process_recording thread per stop_recording;                    *)
(*   - the main thread: start-up (import of config, main, __init__), the   *)
(*     sleep loop of run, and cleanup after KeyboardInterrupt.             *)
(* Every step below is one read or write of state shared between threads,  *)
(* or one call of an external collaborator (device, file system, provider, *)
(* clipboard, platform helper) with its outcome chosen nondeterministically.*)
(***************************************************************************)
EXTENDS Naturals, Integers, Sequences, FiniteSets, TLC

\* ------------------------------------------------------------- bounds

\* process_recording threads that can be alive at once (a finished thread's
\* slot is reused, so the number of cycles is unbounded)
MaxWorkers == 2

\* frames one recording can hold before the callback stops being scheduled
MaxFrames == 2

\* process_recording threads alive at once in the runs with a shutdown and in
\* the runs under fair scheduling
OneAtATime == 1

\* ------------------------------------------------ program constants

\* text[:50] in paste_transcription
PREVIEW_LEN == 50

\* config.CHANNELS, config.SAMPLE_RATE, get_sample_size(paInt16)
CHANNELS == 1
SAMPLE_RATE == 16000
SAMPLE_WIDTH == 2

Workers == 1..MaxWorkers

\* The byte buffer the device hands to audio_callback (in_data) as the n-th
\* frame of a recording.  audio_callback never looks into a buffer, so the
\* buffers of one recording are taken distinct and named by their position.
Frame(n) == <<n, n + 100>>

\* Characters are numbers; 32 is the space str.strip() removes.
SPACE == 32
\* A text one character longer than the preview of line 203.
LongText == [i \in 1..(PREVIEW_LEN + 1) |-> 97]

\* What the provider can answer: no answer (the request raised), or a text.
Responses ==
    { [raised |-> TRUE,  text |-> <<>>],
      [raised |-> FALSE, text |-> <<>>],
      [raised |-> FALSE, text |-> <<SPACE>>],
      [raised |-> FALSE, text |-> <<SPACE>> \o LongText \o <<SPACE>>] }

\* platform.system().lower(): the two supported systems, and another one
Platforms == {"darwin", "linux"}
Systems == Platforms \cup {"windows"}

\* os.getenv("OPENAI_API_KEY", "YOUR_OPENAI_API_KEY")
ApiKeys == {"YOUR_OPENAI_API_KEY", "sk-key"}
PasteTools == {"xdotool", "ydotool", "None"}

\* ------------------------------------------------------------- state

VARIABLES
    is_recording,    \* self.is_recording
    audio_stream,    \* self.audio_stream: "None", or a stream that
                     \* is "open" (running), "stopped" or "closed"
    audio_data,      \* self.audio_data: the list of frames
    stale_stream,    \* a device stream is running that no handle refers to
    hk,              \* the hotkey thread: [pc, notes, opened, spawned]
    cb,              \* the audio callback thread: [pc, in_data]
    workers,         \* the process_recording threads
    captured,        \* history: frames the callback stored since line 90
    system,          \* platform.system().lower()
    paste_tool,      \* LinuxHandler.paste_tool
    main,            \* the main thread's position
    listener,        \* self.keyboard_listener: "none", "running", "stopped"
    pa,              \* self.pyaudio_instance: "none", "ready", "terminated"
    api_key          \* config.OPENAI_API_KEY

vars == <<is_recording, audio_stream, audio_data, stale_stream, hk, cb,
          workers, captured, system, paste_tool, main, listener, pa, api_key>>

\* The process has ended: the import of config raised, main called
\* sys.exit(1), run called sys.exit(0), or cleanup raised.  Its threads are
\* daemon threads and end with it.
Exited == main \in {"fatal_platform", "exit1", "exit0", "crashed"}

\* Optional[str]: None, or a text
None == [isNone |-> TRUE, text |-> <<>>]
Some(t) == [isNone |-> FALSE, text |-> t]

NoFile == [nchannels |-> 0, sampwidth |-> 0, framerate |-> 0, data |-> <<>>]

FreshWorker ==
    [ pc            |-> "unspawned",
      cycle         |-> <<>>,     \* history: the frames captured in the cycle
                                  \* that spawned it, kept until the thread
                                  \* has made its last read of self.audio_data
      file          |-> "none",   \* the temp file: none, exists, deleted
      content       |-> NoFile,   \* the data of the temp file, kept until
                                  \* transcribe_audio has read the file
      has_path      |-> FALSE,    \* 'temp_file_path' in locals()
      transcription |-> None,
      events        |-> <<>> ]    \* history: the side effects of this thread

\* The hotkey thread between two calls of toggle_recording.  notes, opened and
\* spawned are history of the call in progress (or of the last one): the
\* notifications it has shown, how opening the stream ended ("none": not tried,
\* "ok", "open_raised", "start_raised"), and whether it started a thread.
HkIdle == [pc |-> "idle", notes |-> <<>>, opened |-> "none", spawned |-> FALSE]

Init ==
    /\ is_recording = FALSE
    /\ audio_stream = "None"
    /\ audio_data = <<>>
    /\ stale_stream = FALSE
    /\ hk = HkIdle
    /\ cb = [pc |-> "idle", in_data |-> <<>>]
    /\ workers = [w \in Workers |-> FreshWorker]
    /\ captured = <<>>
    /\ system \in Systems
    /\ paste_tool \in (IF system = "linux" THEN PasteTools ELSE {"None"})
    /\ main = "import20"
    /\ listener = "none"
    /\ pa = "none"
    /\ api_key \in ApiKeys

Alive(w) == workers[w].pc \notin {"unspawned", "done"}

\* toggle_recording, line 79
Toggle ==
    /\ ~Exited
    /\ listener = "running"
    /\ hk.pc = "idle"
    /\ hk' = [HkIdle EXCEPT !.pc = IF is_recording THEN "stop119" ELSE "start86"]
    /\ UNCHANGED <<is_recording, audio_stream, audio_data, stale_stream, cb,
                   workers, captured, system, paste_tool, main, listener, pa, api_key>>

\* A call of platform_handler.show_notification(title, message), as logged by
\* the thread that makes it.  Both handlers catch every exception.
Notification(msg, text) == [kind |-> "notify", msg |-> msg, text |-> text]

\* show_notification with the except clause left out
show_notification_Unguarded(sys, helper_ok) ==
    [raised |-> ~helper_ok, shown |-> helper_ok, printed |-> FALSE]

\* platform_handler.show_notification(): whether the notification is shown,
\* and whether the call raises.  helper_ok: the helper (osascript, which and
\* notify-send) ran without error.  MacOSHandler passes on every exception;
\* LinuxHandler prints the message when notify-send is missing or when the
\* helper raised.
show_notification(sys, helper_ok) ==
    IF sys = "darwin"
    THEN [raised |-> FALSE, shown |-> helper_ok, printed |-> FALSE]
    ELSE [raised |-> FALSE, shown |-> helper_ok, printed |-> ~helper_ok]

\* A step of the hotkey thread: the process is running, and nothing of the
\* other threads changes.
HkUnchanged ==
    /\ ~Exited
    /\ UNCHANGED <<cb, workers, system, paste_tool, main, listener, pa, api_key>>

\* start_recording, lines 86-87: the early return
Start86 ==
    /\ hk.pc = "start86"
    /\ hk' = [hk EXCEPT !.pc = IF is_recording THEN "idle" ELSE "start89"]
    /\ UNCHANGED <<is_recording, audio_stream, audio_data, stale_stream, captured>>
    /\ HkUnchanged

\* line 89
Start89 ==
    /\ hk.pc = "start89"
    /\ is_recording' = TRUE
    /\ hk' = [hk EXCEPT !.pc = "start90"]
    /\ UNCHANGED <<audio_stream, audio_data, stale_stream, captured>>
    /\ HkUnchanged

\* Start90 with the old list kept
Start90_KeepsBuffer ==
    /\ hk.pc = "start90"
    /\ captured' = <<>>
    /\ hk' = [hk EXCEPT !.pc = "start92"]
    /\ UNCHANGED <<is_recording, audio_stream, audio_data, stale_stream>>
    /\ HkUnchanged

\* line 90: a new list replaces the old one
Start90 ==
    /\ hk.pc = "start90"
    /\ audio_data' = <<>>
    /\ captured' = <<>>
    /\ hk' = [hk EXCEPT !.pc = "start92"]
    /\ UNCHANGED <<is_recording, audio_stream, stale_stream>>
    /\ HkUnchanged

\* line 92, outside the try: an exception of the call would leave
\* toggle_recording and end the hotkey thread
Start92 ==
    /\ hk.pc = "start92"
    /\ \E helper_ok \in BOOLEAN :
         hk' = [hk EXCEPT !.pc = IF show_notification(system, helper_ok).raised
                                 THEN "raised" ELSE "start97",
                          !.notes = Append(@, Notification("started", <<>>))]
    /\ UNCHANGED <<is_recording, audio_stream, audio_data, stale_stream, captured>>
    /\ HkUnchanged

\* lines 97-104: pyaudio_instance.open either returns a running stream, which
\* is assigned to self.audio_stream (dropping the handle held before), or
\* raises; it raises once the PyAudio instance is terminated.
Start97 ==
    /\ hk.pc = "start97"
    /\ \E opened \in (IF pa = "ready" THEN BOOLEAN ELSE {FALSE}) :
         IF opened
         THEN /\ audio_stream' = "open"
              /\ stale_stream' = (stale_stream \/ audio_stream = "open")
              /\ hk' = [hk EXCEPT !.pc = "start105", !.opened = "ok"]
         ELSE /\ hk' = [hk EXCEPT !.pc = "start108", !.opened = "open_raised"]
              /\ UNCHANGED <<audio_stream, stale_stream>>
    /\ UNCHANGED <<is_recording, audio_data, captured>>
    /\ HkUnchanged

\* line 105: start_stream returns or raises
Start105 ==
    /\ hk.pc = "start105"
    /\ \E started \in BOOLEAN :
         hk' = IF started
               THEN [hk EXCEPT !.pc = "idle"]
               ELSE [hk EXCEPT !.pc = "start108", !.opened = "start_raised"]
    /\ UNCHANGED <<is_recording, audio_stream, audio_data, stale_stream, captured>>
    /\ HkUnchanged

\* Start108 with the reset of the flag forgotten
Start108_KeepsFlag ==
    /\ hk.pc = "start108"
    /\ hk' = [hk EXCEPT !.pc = "start109"]
    /\ UNCHANGED <<is_recording, audio_stream, audio_data, stale_stream, captured>>
    /\ HkUnchanged

\* line 108, in the except clause
Start108 ==
    /\ hk.pc = "start108"
    /\ is_recording' = FALSE
    /\ hk' = [hk EXCEPT !.pc = "start109"]
    /\ UNCHANGED <<audio_stream, audio_data, stale_stream, captured>>
    /\ HkUnchanged

\* line 109
Start109 ==
    /\ hk.pc = "start109"
    /\ \E helper_ok \in BOOLEAN :
         hk' = [hk EXCEPT !.pc = IF show_notification(system, helper_ok).raised
                                 THEN "raised" ELSE "idle",
                          !.notes = Append(@, Notification("failed_start", <<>>))]
    /\ UNCHANGED <<is_recording, audio_stream, audio_data, stale_stream, captured>>
    /\ HkUnchanged

\* stop_recording, lines 119-120: the early return
Stop119 ==
    /\ hk.pc = "stop119"
    /\ hk' = [hk EXCEPT !.pc = IF is_recording THEN "stop122" ELSE "idle"]
    /\ UNCHANGED <<is_recording, audio_stream, audio_data, stale_stream, captured>>
    /\ HkUnchanged

\* line 122
Stop122 ==
    /\ hk.pc = "stop122"
    /\ is_recording' = FALSE
    /\ hk' = [hk EXCEPT !.pc = "stop125"]
    /\ UNCHANGED <<audio_stream, audio_data, stale_stream, captured>>
    /\ HkUnchanged

\* line 125
Stop125 ==
    /\ hk.pc = "stop125"
    /\ \E helper_ok \in BOOLEAN :
         hk' = [hk EXCEPT !.pc = IF show_notification(system, helper_ok).raised
                                 THEN "raised" ELSE "stop127",
                          !.notes = Append(@, Notification("processing", <<>>))]
    /\ UNCHANGED <<is_recording, audio_stream, audio_data, stale_stream, captured>>
    /\ HkUnchanged

\* line 127: if self.audio_stream
Stop127 ==
    /\ hk.pc = "stop127"
    /\ hk' = [hk EXCEPT !.pc = IF audio_stream # "None" THEN "stop128"
                                                         ELSE "stop133"]
    /\ UNCHANGED <<is_recording, audio_stream, audio_data, stale_stream, captured>>
    /\ HkUnchanged

\* line 128: self.audio_stream.stop_stream() returns once no callback of the
\* stream is running, and leaves a stream that is not running as it is.  On
\* None the attribute access raises AttributeError, which leaves
\* toggle_recording and ends the hotkey thread.
Stop128 ==
    /\ hk.pc = "stop128"
    /\ IF audio_stream = "None"
       THEN /\ hk' = [hk EXCEPT !.pc = "raised"]
            /\ UNCHANGED audio_stream
       ELSE /\ audio_stream = "open" => cb.pc = "idle"
            /\ audio_stream' = IF audio_stream = "open" THEN "stopped"
                                                         ELSE audio_stream
            /\ hk' = [hk EXCEPT !.pc = "stop129"]
    /\ UNCHANGED <<is_recording, audio_data, stale_stream, captured>>
    /\ HkUnchanged

\* line 129: self.audio_stream.close() releases the device
Stop129 ==
    /\ hk.pc = "stop129"
    /\ IF audio_stream = "None"
       THEN /\ hk' = [hk EXCEPT !.pc = "raised"]
            /\ UNCHANGED audio_stream
       ELSE /\ audio_stream = "open" => cb.pc = "idle"
            /\ audio_stream' = "closed"
            /\ hk' = [hk EXCEPT !.pc = "stop130"]
    /\ UNCHANGED <<is_recording, audio_data, stale_stream, captured>>
    /\ HkUnchanged

\* line 130: self.audio_stream = None
Stop130 ==
    /\ hk.pc = "stop130"
    /\ audio_stream' = "None"
    /\ hk' = [hk EXCEPT !.pc = "stop133"]
    /\ UNCHANGED <<is_recording, audio_data, stale_stream, captured>>
    /\ HkUnchanged

\* line 133: threading.Thread(target=self.process_recording).start()
Stop133 ==
    /\ ~Exited
    /\ hk.pc = "stop133"
    /\ \E w \in Workers :
         /\ ~Alive(w)
         /\ \A v \in Workers : v < w => Alive(v)
         /\ workers' = [workers EXCEPT ![w] =
                [FreshWorker EXCEPT !.pc = "p137", !.cycle = captured]]
    /\ hk' = [hk EXCEPT !.pc = "idle", !.spawned = TRUE]
    /\ UNCHANGED <<is_recording, audio_stream, audio_data, stale_stream, cb,
                   captured, system, paste_tool, main, listener, pa, api_key>>

\* audio_callback, line 113: the device calls back with one buffer while a
\* stream is running
Callback113 ==
    /\ ~Exited
    /\ cb.pc = "idle"
    /\ audio_stream = "open" \/ stale_stream
    /\ Len(audio_data) < MaxFrames
    /\ \E in_data \in {Frame(Len(captured) + 1)} :
         cb' = IF is_recording
               THEN [pc |-> "append114", in_data |-> in_data]
               ELSE [pc |-> "idle", in_data |-> <<>>]
    /\ UNCHANGED <<is_recording, audio_stream, audio_data, stale_stream, hk,
                   workers, captured, system, paste_tool, main, listener, pa, api_key>>

\* Callback114 with the frame put in front
Callback114_Prepends ==
    /\ ~Exited
    /\ cb.pc = "append114"
    /\ audio_data' = <<cb.in_data>> \o audio_data
    /\ captured' = Append(captured, cb.in_data)
    /\ cb' = [pc |-> "idle", in_data |-> <<>>]
    /\ UNCHANGED <<is_recording, audio_stream, stale_stream, hk, workers,
                   system, paste_tool, main, listener, pa, api_key>>

\* line 114: self.audio_data.append(in_data)
Callback114 ==
    /\ ~Exited
    /\ cb.pc = "append114"
    /\ audio_data' = Append(audio_data, cb.in_data)
    /\ captured' = Append(captured, cb.in_data)
    /\ cb' = [pc |-> "idle", in_data |-> <<>>]
    /\ UNCHANGED <<is_recording, audio_stream, stale_stream, hk, workers,
                   system, paste_tool, main, listener, pa, api_key>>

\* ---------------------------------------------------- the main thread

MainUnchanged ==
    UNCHANGED <<audio_data, hk, cb, workers, captured, system, paste_tool, api_key>>

\* main.py line 20, import config; config.py line 8 calls
\* get_platform_handler(), which raises NotImplementedError (lines 121-130)
\* for a system that is neither darwin nor linux.
Import20 ==
    /\ main = "import20"
    /\ main' = IF system \in Platforms THEN "main237" ELSE "fatal_platform"
    /\ UNCHANGED <<is_recording, audio_stream, stale_stream, listener, pa>>
    /\ MainUnchanged

\* Main237 without the test of the key
Main237_NoKeyCheck ==
    /\ main = "main237"
    /\ main' = "init25"
    /\ UNCHANGED <<is_recording, audio_stream, stale_stream, listener, pa>>
    /\ MainUnchanged

\* main, lines 237-239: the placeholder key ends the process with status 1
Main237 ==
    /\ main = "main237"
    /\ main' = IF api_key = "YOUR_OPENAI_API_KEY" THEN "exit1" ELSE "init25"
    /\ UNCHANGED <<is_recording, audio_stream, stale_stream, listener, pa>>
    /\ MainUnchanged

\* VoiceTranscriber.__init__, lines 25-48: the fields are set, the PyAudio
\* instance is created (line 37) and setup_keyboard_listener (line 44, lines
\* 63-75) starts the listener; then main calls run (line 242).
Init25 ==
    /\ main = "init25"
    /\ is_recording' = FALSE
    /\ audio_stream' = "None"
    /\ pa' = "ready"
    /\ listener' = "running"
    /\ main' = "run226"
    /\ UNCHANGED stale_stream
    /\ MainUnchanged

\* run, lines 226-229: KeyboardInterrupt ends the sleep loop
Interrupt ==
    /\ main = "run226"
    /\ main' = "cleanup212"
    /\ UNCHANGED <<is_recording, audio_stream, stale_stream, listener, pa>>
    /\ MainUnchanged

\* cleanup, line 212
Cleanup212 ==
    /\ main = "cleanup212"
    /\ is_recording' = FALSE
    /\ main' = "cleanup213"
    /\ UNCHANGED <<audio_stream, stale_stream, listener, pa>>
    /\ MainUnchanged

\* line 213: if self.audio_stream
Cleanup213 ==
    /\ main = "cleanup213"
    /\ main' = IF audio_stream # "None" THEN "cleanup214" ELSE "cleanup216"
    /\ UNCHANGED <<is_recording, audio_stream, stale_stream, listener, pa>>
    /\ MainUnchanged

\* line 214: self.audio_stream.stop_stream(); the AttributeError on None
\* leaves cleanup and run, and ends the process before line 217.
Cleanup214 ==
    /\ main = "cleanup214"
    /\ IF audio_stream = "None"
       THEN /\ main' = "crashed"
            /\ UNCHANGED audio_stream
       ELSE /\ audio_stream = "open" => cb.pc = "idle"
            /\ audio_stream' = IF audio_stream = "open" THEN "stopped"
                                                         ELSE audio_stream
            /\ main' = "cleanup215"
    /\ UNCHANGED <<is_recording, stale_stream, listener, pa>>
    /\ MainUnchanged

\* line 215: self.audio_stream.close(); the handle is kept
Cleanup215 ==
    /\ main = "cleanup215"
    /\ IF audio_stream = "None"
       THEN /\ main' = "crashed"
            /\ UNCHANGED audio_stream
       ELSE /\ audio_stream = "open" => cb.pc = "idle"
            /\ audio_stream' = "closed"
            /\ main' = "cleanup216"
    /\ UNCHANGED <<is_recording, stale_stream, listener, pa>>
    /\ MainUnchanged

\* line 216: pyaudio_instance.terminate() closes every stream of the instance
Cleanup216 ==
    /\ main = "cleanup216"
    /\ cb.pc = "idle"
    /\ pa' = "terminated"
    /\ audio_stream' = IF audio_stream = "None" THEN "None" ELSE "closed"
    /\ stale_stream' = FALSE
    /\ main' = "cleanup217"
    /\ UNCHANGED <<is_recording, listener>>
    /\ MainUnchanged

\* line 217: self.keyboard_listener.stop()
Cleanup217 ==
    /\ main = "cleanup217"
    /\ listener' = "stopped"
    /\ main' = "exit232"
    /\ UNCHANGED <<is_recording, audio_stream, stale_stream, pa>>
    /\ MainUnchanged

\* run, line 232: sys.exit(0)
Exit232 ==
    /\ main = "exit232"
    /\ main' = "exit0"
    /\ UNCHANGED <<is_recording, audio_stream, stale_stream, listener, pa>>
    /\ MainUnchanged

\* ------------------------------------------------- process_recording

\* A step of a process_recording thread: the process is running, and only
\* the thread's own record changes.
WUnchanged ==
    /\ ~Exited
    /\ UNCHANGED <<is_recording, audio_stream, audio_data, stale_stream, hk, cb,
                   captured, system, paste_tool, main, listener, pa, api_key>>

\* b''.join(frames)
RECURSIVE Join(_)
Join(frames) == IF frames = <<>> THEN <<>> ELSE Head(frames) \o Join(Tail(frames))

\* save_audio_to_file, lines 169-173: the WAV file written from the frames
WavFile(frames) ==
    [ nchannels |-> CHANNELS, sampwidth |-> SAMPLE_WIDTH,
      framerate |-> SAMPLE_RATE, data |-> Join(frames) ]

\* str.strip()
RECURSIVE LStrip(_)
LStrip(t) == IF t # <<>> /\ Head(t) = SPACE THEN LStrip(Tail(t)) ELSE t
RECURSIVE RStrip(_)
RStrip(t) ==
    IF t # <<>> /\ t[Len(t)] = SPACE THEN RStrip(SubSeq(t, 1, Len(t) - 1)) ELSE t
Strip(t) == RStrip(LStrip(t))

\* line 203: text[:50] + '...' if len(text) > 50 else text
Preview(text) ==
    IF Len(text) > PREVIEW_LEN
    THEN SubSeq(text, 1, PREVIEW_LEN) \o <<46, 46, 46>>
    ELSE text

\* Truthy as `transcription is not None`
Truthy_NotNone(t) == ~t.isNone

\* `if transcription:`  (None and '' are falsy)
Truthy(t) == ~t.isNone /\ t.text # <<>>

\* platform_handler.paste_text(): whether the paste keystroke is sent, and
\* whether the call raises.  helper_ok: the helper process exited with 0.
\* MacOSHandler runs os.system and ignores its status; LinuxHandler runs the
\* detected tool with check=True inside try/except, or prints when it has none.
paste_text(sys, tool, helper_ok) ==
    IF sys = "darwin"
    THEN [raised |-> FALSE, keystroke |-> helper_ok]
    ELSE IF tool \in {"xdotool", "ydotool"}
         THEN [raised |-> FALSE, keystroke |-> helper_ok]
         ELSE [raised |-> FALSE, keystroke |-> FALSE]

Event(kind, msg, text) == [kind |-> kind, msg |-> msg, text |-> text]

\* line 137: `if not self.audio_data: return`
Process137(w) ==
    /\ workers[w].pc = "p137"
    /\ workers' = [workers EXCEPT ![w] =
         [@ EXCEPT !.cycle = IF audio_data = <<>> THEN <<>> ELSE @,
                   !.pc = IF audio_data = <<>> THEN "done" ELSE "save165"]]
    /\ WUnchanged

\* line 143, save_audio_to_file: NamedTemporaryFile creates the file (or
\* raises); wave.open .. writeframes writes the frames joined (or raises,
\* leaving the file); only a normal return binds temp_file_path.
Save165(w) ==
    /\ workers[w].pc = "save165"
    /\ \E outcome \in {"create_raised", "write_raised", "ok"} :
         workers' = [workers EXCEPT ![w] =
           CASE outcome = "create_raised" ->
                  [@ EXCEPT !.cycle = <<>>, !.pc = "except155"]
             [] outcome = "write_raised" ->
                  [@ EXCEPT !.cycle = <<>>, !.file = "exists", !.pc = "except155"]
             [] outcome = "ok" ->
                  [@ EXCEPT !.cycle = <<>>, !.file = "exists",
                            !.content = WavFile(audio_data),
                            !.has_path = TRUE, !.pc = "call180"]]
    /\ WUnchanged

\* transcribe_audio, lines 180-184: the file is opened and the request sent
Transcribe180(w) ==
    /\ workers[w].pc = "call180"
    /\ workers' = [workers EXCEPT ![w] =
         IF @.file = "exists"
         THEN [@ EXCEPT !.content = NoFile, !.pc = "transcribing"]
         ELSE [@ EXCEPT !.transcription = None, !.pc = "finally160"]]
    /\ WUnchanged

\* lines 185-188 and the test of line 148: the answer's text stripped, or
\* None when the request raised
Transcribe185(w) ==
    /\ workers[w].pc = "transcribing"
    /\ \E r \in Responses :
         LET t == IF r.raised THEN None ELSE Some(Strip(r.text))
         IN workers' = [workers EXCEPT ![w] =
              [@ EXCEPT !.transcription = t,
                        !.pc = IF Truthy(t) THEN "copy194" ELSE "finally160"]]
    /\ WUnchanged

\* Paste194 with the preview copied in place of the text
Paste194_CopiesPreview(w) ==
    /\ workers[w].pc = "copy194"
    /\ \E copied \in BOOLEAN :
         LET text == Preview(workers[w].transcription.text)
         IN workers' = [workers EXCEPT ![w] =
              IF copied
              THEN [@ EXCEPT !.events = Append(@, Event("clipboard", "copied", text)),
                             !.pc = "paste200"]
              ELSE [@ EXCEPT !.events = Append(@, Event("clipboard", "raised", text)),
                             !.pc = "note208"]]
    /\ WUnchanged

\* paste_transcription, line 194: pyperclip.copy(text) returns or raises
Paste194(w) ==
    /\ workers[w].pc = "copy194"
    /\ \E copied \in BOOLEAN :
         LET text == workers[w].transcription.text
         IN workers' = [workers EXCEPT ![w] =
              IF copied
              THEN [@ EXCEPT !.events = Append(@, Event("clipboard", "copied", text)),
                             !.pc = "paste200"]
              ELSE [@ EXCEPT !.events = Append(@, Event("clipboard", "raised", text)),
                             !.pc = "note208"]]
    /\ WUnchanged

\* line 200: platform_handler.paste_text()
Paste200(w) ==
    /\ workers[w].pc = "paste200"
    /\ \E helper_ok \in BOOLEAN :
         LET r == paste_text(system, paste_tool, helper_ok)
         IN workers' = [workers EXCEPT ![w] =
              [@ EXCEPT !.events = Append(@, Event("paste_text",
                             IF r.keystroke THEN "keystroke" ELSE "failed", <<>>)),
                        !.pc = IF r.raised THEN "note208" ELSE "note204"]]
    /\ WUnchanged

\* lines 203-204, inside the try of paste_transcription
Paste204(w) ==
    /\ workers[w].pc = "note204"
    /\ \E helper_ok \in BOOLEAN :
         workers' = [workers EXCEPT ![w] =
           [@ EXCEPT !.events = Append(@, Notification("pasted", Preview(workers[w].transcription.text))),
                     !.pc = IF show_notification(system, helper_ok).raised
                            THEN "note208" ELSE "finally160"]]
    /\ WUnchanged

\* lines 206-208, the except clause of paste_transcription; an exception of
\* the call would go on to the except clause of process_recording
Paste208(w) ==
    /\ workers[w].pc = "note208"
    /\ \E helper_ok \in BOOLEAN :
         workers' = [workers EXCEPT ![w] =
           [@ EXCEPT !.events = Append(@, Notification("paste_failed", <<>>)),
                     !.pc = IF show_notification(system, helper_ok).raised
                            THEN "except155" ELSE "finally160"]]
    /\ WUnchanged

\* lines 155-157, the except clause of process_recording; the finally clause
\* runs whether the call raises or not
Process157(w) ==
    /\ workers[w].pc = "except155"
    /\ \E helper_ok \in BOOLEAN :
         workers' = [workers EXCEPT ![w] =
           [@ EXCEPT !.events = Append(@, Notification("error", <<>>)),
                     !.pc = "finally160"]]
    /\ WUnchanged

\* lines 158-161, the finally clause; the thread ends and its locals with it
Process160(w) ==
    /\ workers[w].pc = "finally160"
    /\ LET unlink == workers[w].has_path /\ workers[w].file = "exists"
       IN workers' = [workers EXCEPT ![w] =
            [@ EXCEPT !.file = IF unlink THEN "deleted" ELSE @,
                      !.has_path = FALSE,
                      !.transcription = None,
                      !.pc = "done"]]
    /\ WUnchanged

\* The steps of process_recording that do not wait for the provider
WorkerLocal(w) ==
    \/ Process137(w) \/ Save165(w) \/ Transcribe180(w)
    \/ Paste194(w) \/ Paste200(w) \/ Paste204(w) \/ Paste208(w)
    \/ Process157(w) \/ Process160(w)

Worker(w) == WorkerLocal(w) \/ Transcribe185(w)

\* toggle_recording up to the start of the thread
Handler ==
    \/ Start86 \/ Start89 \/ Start90 \/ Start92 \/ Start97 \/ Start105
    \/ Start108 \/ Start109
    \/ Stop119 \/ Stop122 \/ Stop125 \/ Stop127 \/ Stop128 \/ Stop129
    \/ Stop130

\* Every thread but the main thread after start-up, without line 133
Threads ==
    \/ Import20 \/ Main237 \/ Init25
    \/ Toggle
    \/ Handler
    \/ Callback113 \/ Callback114
    \/ \E w \in Workers : Worker(w)

\* The program as long as no KeyboardInterrupt arrives.
Next == Threads \/ Stop133

Spec == Init /\ [][Next]_vars

\* run's except clause, lines 229-232
Shutdown ==
    \/ Interrupt
    \/ Cleanup212 \/ Cleanup213 \/ Cleanup214 \/ Cleanup215 \/ Cleanup216
    \/ Cleanup217 \/ Exit232

\* Line 133 in the runs that keep at most OneAtATime threads of
\* process_recording alive.
Stop133_OneAtATime ==
    /\ Cardinality({w \in Workers : Alive(w)}) < OneAtATime
    /\ Stop133

\* The program with a KeyboardInterrupt that can arrive at any moment of run.
NextShutdown == Threads \/ Stop133_OneAtATime \/ Shutdown

ShutdownSpec == Init /\ [][NextShutdown]_vars

\* The program without KeyboardInterrupt, with one thread of
\* process_recording at a time.
NextOneAtATime == Threads \/ Stop133_OneAtATime

\* Scheduling: a thread of the program that can take a step takes it.  The
\* hotkey is pressed or not, and the device delivers buffers or not.
Scheduled ==
    /\ WF_vars(Handler \/ Stop133_OneAtATime)
    /\ \A w \in Workers : WF_vars(WorkerLocal(w))

\* Fair scheduling and a provider that answers every request (with a text or
\* an error).
FairSpec ==
    /\ Init /\ [][NextOneAtATime]_vars
    /\ Scheduled
    /\ \A w \in Workers : WF_vars(Transcribe185(w))

\* Fair scheduling and a provider that may leave a request unanswered:
\* transcribe_audio sets no timeout on the request (lines 181-184).
NoReplySpec ==
    /\ Init /\ [][NextOneAtATime]_vars
    /\ Scheduled

\* ------------------------------------------------------------ claims

\* "Processing": a thread started by stop_recording has not finished yet.
Processing == \E w \in Workers : Alive(w)

\* C1: a toggle delivered while a process_recording thread is still running is
\* ignored: self.is_recording stays False and no capture stream is opened.
C1_ToggleIgnoredWhileProcessing ==
    Processing => (~is_recording /\ audio_stream = "None")

\* C2: at most one process_recording thread is alive at any time.
C2_AtMostOneWorker ==
    Cardinality({w \in Workers : Alive(w)}) <= 1

\* C3: the audio a process_recording thread tests for emptiness (line 137) and
\* the audio it writes to the WAV file (line 173) are the frames captured in
\* the cycle that started the thread.
C3_WorkerReadsItsOwnCycle ==
    [][\A w \in Workers :
         /\ (workers[w].pc = "p137" /\ workers'[w].pc # "p137")
                => audio_data = workers[w].cycle
         /\ (workers[w].pc = "save165" /\ workers'[w].pc = "call180")
                => workers'[w].content = WavFile(workers[w].cycle)]_vars

\* The call of toggle_recording in which pyaudio_instance.open raised has
\* returned.
OpenFailedReturned == hk.pc = "idle" /\ hk.opened = "open_raised"

HasNote(notes, msg) == \E i \in 1..Len(notes) : notes[i].kind = "notify" /\ notes[i].msg = msg

\* C4: when opening the capture stream fails, then at the return of the toggle
\* handler self.is_recording is False, the failure notification has been shown
\* and no thread has been started, and the next toggle goes to start_recording
\* again; between two toggles the flag is never set without an open stream.
C4_OpenFailureRevertsToIdle ==
    /\ [](OpenFailedReturned =>
            /\ ~is_recording
            /\ HasNote(hk.notes, "failed_start")
            /\ ~hk.spawned)
    /\ []((hk.pc = "idle" /\ is_recording) => audio_stream = "open")
    /\ [][(OpenFailedReturned /\ hk'.pc # "idle") => hk'.pc = "start86"]_vars
    /\ [][(hk.pc = "start86" /\ ~is_recording /\ hk' # hk) => hk'.pc = "start89"]_vars

C4_Witness == OpenFailedReturned /\ ~Processing

\* C5: the thread of a cycle that captured no frame returns at line 139: it
\* creates no temp file and calls neither the provider nor the clipboard nor
\* the paste helper.
C5_EmptyCycleShortCircuits ==
    [][\A w \in Workers :
         (workers[w].pc = "p137" /\ workers[w].cycle = <<>> /\ workers'[w] # workers[w])
            => (workers'[w].pc = "done" /\ workers'[w].file = "none")]_vars

\* C6: the temp file exists while the transcription request is in progress,
\* and does not exist once process_recording has returned.
C6_TempFileLifetime ==
    \A w \in Workers :
        /\ workers[w].pc = "transcribing" => workers[w].file = "exists"
        /\ workers[w].pc = "done" => workers[w].file # "exists"

\* transcribe_audio returned no text: None (the request raised) or ''.
FailedResult(t) == t.isNone \/ t.text = <<>>

\* transcribe_audio has been called by thread w and has returned
Transcribed(w) ==
    /\ workers[w].has_path
    /\ workers[w].pc \in {"copy194", "paste200", "note204", "note208", "finally160"}

NoDelivery(events) ==
    \A i \in 1..Len(events) : events[i].kind \notin {"clipboard", "paste_text"}

C8_FailedTranscriptionNotified ==
    \A w \in Workers :
        (Transcribed(w) /\ FailedResult(workers[w].transcription)
             /\ workers[w].pc = "finally160")
           => \E i \in 1..Len(workers[w].events) :
                 /\ workers[w].events[i].kind = "notify"
                 /\ workers[w].events[i].msg \in {"error", "paste_failed"}

\* The positions of the events of one kind (and message)
Positions(events, kind, msgs) ==
    {i \in 1..Len(events) : events[i].kind = kind /\ events[i].msg \in msgs}

\* C9: when the transcription returns a text, paste_transcription is called
\* once with that text (one clipboard write, of exactly the text), and the
\* clipboard write precedes the paste keystroke, which precedes the success
\* notification.
C9_DeliverOnceInOrder ==
    \A w \in Workers :
        LET ev == workers[w].events
            clip == Positions(ev, "clipboard", {"copied", "raised"})
            keys == Positions(ev, "paste_text", {"keystroke", "failed"})
            done == Positions(ev, "notify", {"pasted"})
        IN /\ (Transcribed(w) /\ ~FailedResult(workers[w].transcription)
                 /\ workers[w].pc # "copy194")
               => /\ Cardinality(clip) = 1
                  /\ ev[1].kind = "clipboard"
                  /\ ev[1].text = workers[w].transcription.text
           /\ Cardinality(clip) <= 1 /\ Cardinality(keys) <= 1 /\ Cardinality(done) <= 1
           /\ \A k \in keys : \E c \in clip : c < k /\ ev[c].msg = "copied"
           /\ \A d \in done : \E k \in keys : k < d

C9_Witness ==
    \E w \in Workers :
        /\ workers[w].pc = "finally160"
        /\ Len(workers[w].events) = 3
        /\ workers[w].events[1] = Event("clipboard", "copied", LongText)
        /\ workers[w].events[2] = Event("paste_text", "keystroke", <<>>)
        /\ workers[w].events[3] = Notification("pasted", Preview(LongText))

\* C10: a failed clipboard write or paste keystroke is reported by a failure
\* notification, and a failed paste keystroke is never followed by the
\* "Pasted" notification.
C10_PasteFailureReported ==
    \A w \in Workers :
        LET ev == workers[w].events
        IN \A i \in 1..Len(ev) :
             (ev[i].kind = "paste_text" /\ ev[i].msg = "failed")
                => /\ \A j \in (i + 1)..Len(ev) :
                         ~(ev[j].kind = "notify" /\ ev[j].msg = "pasted")
                   /\ workers[w].pc \in {"finally160", "done"}
                         => \E j \in 1..Len(ev) :
                                ev[j].kind = "notify" /\ ev[j].msg = "paste_failed"

\* "Idle": toggle_recording is not running, nothing is being recorded and no
\* process_recording thread is running.
Idle == hk.pc = "idle" /\ ~is_recording /\ ~Processing

\* C11: under fair scheduling and a provider that answers, every thread
\* started by a stop toggle is eventually finished with the machine back in
\* Idle.
C11_StopLeadsToIdle ==
    \A w \in Workers :
        (workers[w].pc = "p137") ~> (workers[w].pc = "done" /\ Idle)

\* C12: a request the provider never answers still ends: the thread waiting
\* in transcribe_audio eventually reaches its end.
C12_TranscriptionBounded ==
    \A w \in Workers :
        (workers[w].pc = "transcribing") ~> (workers[w].pc = "done")

\* The system is not a supported one, or OPENAI_API_KEY is not set.
BadStartup == system \notin Platforms \/ api_key = "YOUR_OPENAI_API_KEY"

\* C13: when the system is not supported or the key is not set, start-up never
\* gets past the import of config (unsupported system) or past the test of
\* the key in main: the listener is never created, no stream is ever opened
\* and no process_recording thread is ever started.
C13_FatalStartup ==
    BadStartup =>
        /\ main \in {"import20", "main237", "fatal_platform", "exit1"}
        /\ main = "main237" => system \in Platforms
        /\ listener = "none" /\ pa = "none"
        /\ audio_stream = "None" /\ ~stale_stream
        /\ hk = HkIdle
        /\ \A w \in Workers : workers[w].pc = "unspawned"

\* The process has ended with status 1 on the placeholder key.
C13_Witness ==
    system \in Platforms /\ api_key = "YOUR_OPENAI_API_KEY" /\ main = "exit1"

InCleanup ==
    main \in {"cleanup212", "cleanup213", "cleanup214", "cleanup215",
              "cleanup216", "cleanup217", "exit232"}

\* C15: once cleanup has been entered, toggle_recording is not called any
\* more, no capture stream is opened and no process_recording thread is
\* started.
C15_NoTriggerAfterShutdown ==
    [][InCleanup =>
         /\ ~(hk.pc = "idle" /\ hk'.pc # "idle")
         /\ ~(hk.pc = "start97" /\ hk'.opened = "ok")
         /\ ~(hk.pc = "stop133" /\ hk'.spawned)]_vars

\* The shutdown is over: the process has ended after KeyboardInterrupt.
ShutdownOver == main \in {"exit0", "crashed"}

\* C16: when a shutdown is over, keyboard_listener.stop() has been called
\* (line 217 is the only call, so it has been called exactly once).
C16_ListenerStoppedOnce == ShutdownOver => listener = "stopped"

\* Everything but the frame buffer and the callback thread's own position
RestOfState ==
    <<is_recording, audio_stream, stale_stream, hk, workers, main, listener, pa>>

C18_ShimFailureContained ==
    [][/\ (hk.pc = "start92" /\ hk' # hk) => hk'.pc = "start97"
       /\ (hk.pc = "start109" /\ hk' # hk) => hk'.pc = "idle"
       /\ (hk.pc = "stop125" /\ hk' # hk) => hk'.pc = "stop127"
       /\ hk'.pc # "raised"
       /\ \A w \in Workers :
            /\ (workers[w].pc = "paste200" /\ workers'[w] # workers[w])
                   => workers'[w].pc = "note204"
            /\ (workers[w].pc \in {"note204", "note208", "except155"}
                   /\ workers'[w] # workers[w])
                   => workers'[w].pc = "finally160"
            /\ (workers[w].pc \in {"paste200", "note204", "note208", "except155"}
                   /\ workers'[w] # workers[w])
                   => /\ workers'[w].file = workers[w].file
                      /\ workers'[w].has_path = workers[w].has_path
            /\ (workers[w].pc = "finally160" /\ workers'[w].pc = "done"
                   /\ workers[w].has_path)
                   => workers'[w].file = "deleted"]_vars

\* A thread has ended whose paste helper failed: it went on to the
\* notification of line 204 and its temp file is deleted.
C18_Witness ==
    \E w \in Workers :
        /\ workers[w].pc = "done" /\ workers[w].file = "deleted"
        /\ \E i \in 1..Len(workers[w].events) :
              /\ workers[w].events[i].kind = "paste_text"
              /\ workers[w].events[i].msg = "failed"
        /\ HasNote(workers[w].events, "pasted")

\* C19: a call of toggle_recording whose pyaudio_instance.open raised has
\* shown the failure notification and not the "Recording started" one.
C19_StartedOnlyWhenOpened ==
    OpenFailedReturned =>
        /\ HasNote(hk.notes, "failed_start")
        /\ ~HasNote(hk.notes, "started")

\* C20: no capture stream runs without a handle (a second stream was opened
\* over a running one, or a running stream's handle was dropped), and between
\* two calls of toggle_recording, outside cleanup, a stream runs only while
\* is_recording is True.
C20_OneStreamOnlyWhileRecording ==
    /\ ~stale_stream
    /\ (hk.pc = "idle" /\ ~InCleanup /\ audio_stream = "open") => is_recording
====
